---- MODULE Spec2Model ----
(***************************************************************************)
(* Model of the roster-to-iCalendar encoder of ros2cal (src/ros2cal/ics.py *)
(* and its standalone twin ros2cal-cli/json2ics.py).                       *)
(*                                                                         *)
(* A text is a sequence of tokens.  A token is either one of the special   *)
(* characters "\\" "," ";" "\n" "\r", or a run of ordinary characters.     *)
(* String concatenation is \o, str.join is Join, str.replace is Replace.   *)
(* A Python dict is a record whose DOMAIN is the set of keys present.      *)
(* A call that may raise returns Ok(value) or Raise(exception name).       *)
(* A datetime is an instant, counted in minutes since 1970-01-01T00:00Z.   *)
(***************************************************************************)
EXTENDS Integers, Sequences, FiniteSets, TLC

VARIABLES
    roster,         \* json_to_ics argument: a dict, possibly without "events"
    calendar_name,  \* json_to_ics argument: text
    local_tz,       \* json_to_ics argument: zone identifier
    host_tz,        \* environment: UTC offset (minutes) of the host's own zone
    clock,          \* environment: wall clock, an instant
    pc,             \* position of the call: "body", "done", "raised"; "idle": no call
    body,           \* json_to_ics local: blocks encoded so far
    result,         \* the returned document (when pc = "done")
    error,          \* the raised exception (when pc = "raised")
    first,          \* outcome of the previous call on the same roster
    text,           \* escape_ics_text argument (escaping harness)
    escaped         \* escape_ics_text result (escaping harness)

vars == <<roster, calendar_name, local_tz, host_tz, clock, pc, body, result,
          error, first, text, escaped>>

-----------------------------------------------------------------------------
(* Bounds of the model *)

MaxEvents == 2      \* events per roster
MaxSegs == 2        \* flight (activity) segments per event
MaxLen == 3         \* length of a text handed to the escaping harness
MaxTicks == 1       \* minutes the wall clock may advance during the run

-----------------------------------------------------------------------------
(* Python values and exceptions *)

Ok(v) == [ok |-> TRUE, val |-> v]
Raise(e) == [ok |-> FALSE, err |-> e]

\* the rest of a function body after a call that may raise: an exception
\* propagates, a value is handed on
Bind(r, rest(_)) == IF r.ok THEN rest(r.val) ELSE r

\* d[k]: KeyError when the key is absent
Item(d, k) == IF k \in DOMAIN d THEN Ok(d[k]) ELSE Raise("KeyError")

\* d.get(k, default)
Get(d, k, default) == IF k \in DOMAIN d THEN d[k] ELSE default

\* sep.join(parts)
RECURSIVE Join(_, _)
Join(parts, sep) ==
    IF parts = <<>> THEN <<>>
    ELSE IF Len(parts) = 1 THEN parts[1]
    ELSE parts[1] \o sep \o Join(Tail(parts), sep)

IsPrefix(p, s) == Len(p) <= Len(s) /\ SubSeq(s, 1, Len(p)) = p

\* s.replace(old, new): leftmost non-overlapping occurrences, old non-empty
RECURSIVE Replace(_, _, _)
Replace(s, old, new) ==
    IF s = <<>> THEN <<>>
    ELSE IF IsPrefix(old, s)
         THEN new \o Replace(SubSeq(s, Len(old) + 1, Len(s)), old, new)
         ELSE <<s[1]>> \o Replace(Tail(s), old, new)

CRLF == <<"\r", "\n">>
LF == <<"\n">>

-----------------------------------------------------------------------------
(* Dates and times *)

Pad2(n) == IF n < 10 THEN "0" \o ToString(n) ELSE ToString(n)

\* date(y, m, d).toordinal(), counted from 1970-01-01 (proleptic Gregorian)
days_from_civil(y, m, d) ==
    LET yy  == IF m <= 2 THEN y - 1 ELSE y
        era == yy \div 400
        yoe == yy - era * 400
        mp  == IF m > 2 THEN m - 3 ELSE m + 9
        doy == (153 * mp + 2) \div 5 + d - 1
        doe == yoe * 365 + yoe \div 4 - yoe \div 100 + doy
    IN  era * 146097 + doe - 719468

\* date.fromordinal(): day number -> <<y, m, d>>
civil_from_days(z) ==
    LET zz  == z + 719468
        era == zz \div 146097
        doe == zz - era * 146097
        yoe == (doe - doe \div 1460 + doe \div 36524 - doe \div 146096) \div 365
        doy == doe - (365 * yoe + yoe \div 4 - yoe \div 100)
        mp  == (5 * doy + 2) \div 153
        d   == doy - (153 * mp + 2) \div 5 + 1
        m   == IF mp < 10 THEN mp + 3 ELSE mp - 9
        y   == yoe + era * 400 + (IF m <= 2 THEN 1 ELSE 0)
    IN  <<y, m, d>>

\* date.strftime("%Y%m%d")
FormatYmd(c) == ToString(c[1]) \o Pad2(c[2]) \o Pad2(c[3])

strftime_Ymd(day) == FormatYmd(civil_from_days(day))

\* A timestamp string.  form "Z": trailing Z; "offset": explicit +hh:mm or
\* -hh:mm (off, in minutes); "naive": no zone suffix; "garbage": not ISO 8601.
Stamp(y, m, d, hh, mm, form, off) ==
    [y |-> y, m |-> m, d |-> d, hh |-> hh, mm |-> mm, form |-> form, off |-> off]

Garbage == Stamp(0, 0, 0, 0, 0, "garbage", 0)

Abs(n) == IF n < 0 THEN -n ELSE n

\* the characters of a timestamp string, as the roster carries them
IsoText(ts) ==
    IF ts.form = "garbage" THEN <<"tomorrow">>
    ELSE LET base == ToString(ts.y) \o "-" \o Pad2(ts.m) \o "-" \o Pad2(ts.d)
                        \o "T" \o Pad2(ts.hh) \o ":" \o Pad2(ts.mm) \o ":00"
         IN  CASE ts.form = "Z" -> <<base \o "Z">>
               [] ts.form = "offset" ->
                    <<base \o (IF ts.off < 0 THEN "-" ELSE "+")
                          \o Pad2(Abs(ts.off) \div 60) \o ":"
                          \o Pad2(Abs(ts.off) % 60)>>
               [] OTHER -> <<base>>

\* the wall time a timestamp string spells, in minutes since the epoch
WallMinutes(ts) == days_from_civil(ts.y, ts.m, ts.d) * 1440 + ts.hh * 60 + ts.mm

\* a parser that reads what is not ISO 8601 as the epoch
parse_iso_utc_lenient(value, host) ==
    CASE value.form = "garbage" -> Ok(0)
      [] value.form = "Z" -> Ok(WallMinutes(value) - 0)
      [] value.form = "offset" -> Ok(WallMinutes(value) - value.off)
      [] OTHER -> Ok(WallMinutes(value) - host)

\* _parse_iso_utc: a trailing Z is rewritten to +00:00; fromisoformat raises
\* ValueError on what is not ISO 8601; astimezone(utc) subtracts the offset
\* the string carries and, for a string that carries none, the offset of the
\* host's own zone (datetime.astimezone on a naive datetime).
parse_iso_utc(value, host) ==
    CASE value.form = "garbage" -> Raise("ValueError")
      [] value.form = "Z" -> Ok(WallMinutes(value) - 0)
      [] value.form = "offset" -> Ok(WallMinutes(value) - value.off)
      [] OTHER -> Ok(WallMinutes(value) - host)

\* _format_dt_for_ics: strftime("%Y%m%dT%H%M%SZ") of the UTC instant
format_dt_for_ics(dt) ==
    strftime_Ymd(dt \div 1440) \o "T" \o Pad2((dt % 1440) \div 60)
        \o Pad2(dt % 60) \o "00" \o "Z"

\* _format_time_z: strftime("%H:%M") + "z" of the UTC instant
format_time_z(dt) == Pad2((dt % 1440) \div 60) \o ":" \o Pad2(dt % 60) \o "z"

\* the zone database: UTC offset (minutes) of each zone ZoneInfo resolves,
\* at the dates of the model (winter time)
ZoneDB == [z \in {"Europe/Berlin", "UTC"} |->
              IF z = "Europe/Berlin" THEN 60 ELSE 0]

\* ZoneInfo(key): ZoneInfoNotFoundError for a key the database lacks
ZoneInfo(key) ==
    IF key \in DOMAIN ZoneDB THEN Ok(ZoneDB[key]) ELSE Raise("ZoneInfoNotFoundError")

\* _format_time_lt: strftime("%H:%M") + " LT" of the instant in the local zone
format_time_lt(dt, tz) ==
    Bind(ZoneInfo(tz), LAMBDA off :
        Ok(Pad2(((dt + off) % 1440) \div 60) \o ":" \o Pad2((dt + off) % 60) \o " LT"))

-----------------------------------------------------------------------------
(* The event encoder *)

COLOR_MAP ==
    [t \in {<<"FLIGHT">>, <<"DH">>, <<"HSBY">>, <<"A/L">>} |->
        CASE t = <<"FLIGHT">> -> <<"#4285F4">>
          [] t = <<"DH">> -> <<"#DB4437">>
          [] t = <<"HSBY">> -> <<"#F4B400">>
          [] OTHER -> <<"#0F9D58">>]

\* Python's None where a text is expected
NoText == <<"<None>">>

\* the backslash escaped last instead of first
escape_backslash_last(t) ==
    IF t = NoText THEN <<>>
    ELSE Replace(Replace(Replace(Replace(t,
             <<",">>, <<"\\", ",">>),
             <<";">>, <<"\\", ";">>),
             <<"\n">>, <<"\\", "n">>),
             <<"\\">>, <<"\\", "\\">>)

\* _escape_ics_text
escape_ics_text(t) ==
    IF t = NoText THEN <<>>
    ELSE Replace(Replace(Replace(Replace(t,
             <<"\\">>, <<"\\", "\\">>),
             <<",">>, <<"\\", ",">>),
             <<";">>, <<"\\", ";">>),
             <<"\n">>, <<"\\", "n">>)

\* no placeholder for an empty text
OrElse_empty(x, default) == x

\* x or default, for a text x (the empty text is falsy)
OrElse(x, default) == IF x = <<>> THEN default ELSE x

\* _parse_iso_utc(d[k])
ParseItem(d, k, host) == Bind(Item(d, k), LAMBDA v : parse_iso_utc(v, host))

\* the loop over event.get("flights") or []: the lines, or the first exception
RECURSIVE flight_lines(_, _)
flight_lines(flights, host) ==
    IF flights = <<>> THEN Ok(<<>>)
    ELSE
    Bind(ParseItem(flights[1], "departure_time_utc", host), LAMBDA dep_dt :
    Bind(ParseItem(flights[1], "arrival_time_utc", host), LAMBDA arr_dt :
    Bind(flight_lines(Tail(flights), host), LAMBDA rest :
        Ok(<< OrElse(Get(flights[1], "flight_number", <<>>), <<"UNKNOWN">>)
              \o <<" ">>
              \o OrElse(Get(flights[1], "departure_airport", <<>>), <<"???">>)
              \o <<" ", format_time_z(dep_dt), " ">>
              \o OrElse(Get(flights[1], "arrival_airport", <<>>), <<"???">>)
              \o <<" ", format_time_z(arr_dt)>> >> \o rest))))

\* the loop over event.get("activities") or []
RECURSIVE activity_lines(_, _)
activity_lines(activities, host) ==
    IF activities = <<>> THEN Ok(<<>>)
    ELSE
    Bind(ParseItem(activities[1], "start_time_utc", host), LAMBDA start_dt :
    Bind(ParseItem(activities[1], "end_time_utc", host), LAMBDA end_dt :
    Bind(activity_lines(Tail(activities), host), LAMBDA rest :
        Ok(<< OrElse(Get(activities[1], "start_place", <<>>), <<"???">>)
              \o <<" ", format_time_z(start_dt), " -> ">>
              \o OrElse(Get(activities[1], "end_place", <<>>), <<"???">>)
              \o <<" ", format_time_z(end_dt)>> >> \o rest))))

\* the branches of _build_description (lines 57-99), given the four formatted
\* times (" -- " stands for the en dash U+2013 between two spaces)
duty_lines(event, duty_type, host, checkin_z, checkout_z, checkin_lt, checkout_lt) ==
    CASE duty_type \in {<<"FLIGHT">>, <<"DH">>} ->
           Bind(flight_lines(Get(event, "flights", <<>>), host), LAMBDA fl :
               Ok(<< <<"CHECK-IN ", checkin_z, " (", checkin_lt, ")">> >>
                  \o fl
                  \o << <<"CHECK-OUT ", checkout_z, " (", checkout_lt, ")">> >>))
      [] duty_type = <<"HSBY">> ->
           Ok(<< <<"Standby (HSBY)">>,
                 <<checkin_z, " -- ", checkout_z, " (",
                   checkin_lt, " -- ", checkout_lt, ")">> >>
              \o (IF Get(event, "location", <<>>) # <<>>
                  THEN << <<"Location: ">> \o event.location >>
                  ELSE <<>>))
      [] duty_type = <<"A/L">> -> Ok(<< <<"Annual leave">> >>)
      [] OTHER ->
           Bind(activity_lines(Get(event, "activities", <<>>), host), LAMBDA al :
               Ok(<< <<"Duty: ">> \o duty_type,
                     <<"CHECK-IN ", checkin_z, " (", checkin_lt, ")">> >>
                  \o al
                  \o << <<"CHECK-OUT ", checkout_z, " (", checkout_lt, ")">> >>))

\* the list `lines` of _build_description, or the exception it raises
description_lines(event, tz, host) ==
    Bind(ParseItem(event, "start_utc", host), LAMBDA start_dt :
    Bind(ParseItem(event, "end_utc", host), LAMBDA end_dt :
    Bind(format_time_lt(start_dt, tz), LAMBDA checkin_lt :
    Bind(format_time_lt(end_dt, tz), LAMBDA checkout_lt :
        duty_lines(event, Get(event, "duty_type", <<>>), host,
                   format_time_z(start_dt), format_time_z(end_dt),
                   checkin_lt, checkout_lt)))))

\* _build_description: "\n".join(lines)
build_description(event, tz, host) ==
    Bind(description_lines(event, tz, host), LAMBDA lines : Ok(Join(lines, LF)))

\* lines 119-127 of _event_to_ics: the DTSTART and DTEND lines
timing_lines(event, duty_type, start_dt, end_dt) ==
    IF Get(event, "is_all_day", FALSE) \/ duty_type = <<"A/L">>
    THEN << <<"DTSTART", ";", "VALUE=DATE:", strftime_Ymd(start_dt \div 1440)>>,
            <<"DTEND", ";", "VALUE=DATE:", strftime_Ymd(start_dt \div 1440 + 1)>> >>
    ELSE << <<"DTSTART:", format_dt_for_ics(start_dt)>>,
            <<"DTEND:", format_dt_for_ics(end_dt)>> >>

\* a default colour for the duty types the table lacks
color_lines_default(duty_type) ==
    IF duty_type \in DOMAIN COLOR_MAP
    THEN << <<"COLOR:">> \o COLOR_MAP[duty_type] >>
    ELSE << <<"COLOR:", "#9E9E9E">> >>

\* lines 115 and 131-132 of _event_to_ics: the COLOR line, if any
color_lines(duty_type) ==
    IF duty_type \in DOMAIN COLOR_MAP
    THEN << <<"COLOR:">> \o COLOR_MAP[duty_type] >>
    ELSE <<>>

\* a UID that also takes the location in
uid_with_location(event, duty_type) ==
    duty_type \o <<"|">> \o IsoText(event.start_utc) \o <<"|">> \o IsoText(event.end_utc)
        \o Get(event, "location", <<>>)

\* line 110 of _event_to_ics
uid_of(event, duty_type) ==
    duty_type \o <<"|">> \o IsoText(event.start_utc) \o <<"|">> \o IsoText(event.end_utc)

\* the list `lines` of _event_to_ics for the duty type read at line 105, or
\* the exception it raises; `now` is what datetime.now(timezone.utc) returns
vevent_lines_of(event, duty_type, tz, host, now) ==
    Bind(ParseItem(event, "start_utc", host), LAMBDA start_dt :
    Bind(ParseItem(event, "end_utc", host), LAMBDA end_dt :
    Bind(build_description(event, tz, host), LAMBDA description :
        Ok(<< <<"BEGIN:VEVENT">>,
              <<"UID:">> \o uid_of(event, duty_type),
              <<"DTSTAMP:", format_dt_for_ics(now)>> >>
           \o timing_lines(event, duty_type, start_dt, end_dt)
           \o << <<"SUMMARY:">> \o escape_ics_text(duty_type),
                 <<"DESCRIPTION:">> \o escape_ics_text(description) >>
           \o color_lines(duty_type)
           \o << <<"END:VEVENT">> >>))))

vevent_lines(event, tz, host, now) ==
    vevent_lines_of(event, Get(event, "duty_type", <<"DUTY">>), tz, host, now)

\* _event_to_ics: "\r\n".join(lines)
event_to_ics(event, tz, host, now) ==
    Bind(vevent_lines(event, tz, host, now), LAMBDA lines : Ok(Join(lines, CRLF)))

-----------------------------------------------------------------------------
(* The calendar assembler *)

\* json_to_ics, lines 144-150
header(name) ==
    << <<"BEGIN:VCALENDAR">>, <<"VERSION:2.0">>,
       <<"PRODID:-//">> \o name \o <<"//RosterToICS//EN">>,
       <<"CALSCALE:GREGORIAN">>, <<"METHOD:PUBLISH">> >>

footer == << <<"END:VCALENDAR">> >>

\* the blocks joined last to first
RECURSIVE Reverse(_)
Reverse(q) == IF q = <<>> THEN <<>> ELSE Append(Reverse(Tail(q)), q[1])

assemble_reversed(name, blocks) ==
    Join(header(name) \o Reverse(blocks) \o footer, CRLF)

\* json_to_ics, line 153
assemble(name, blocks) == Join(header(name) \o blocks \o footer, CRLF)

-----------------------------------------------------------------------------
(* Inputs *)

\* 2024-03-05T12:00Z, the wall clock when the run starts
Clock0 == days_from_civil(2024, 3, 5) * 1440 + 720

T_Z1 == Stamp(2024, 2, 29, 23, 30, "Z", 0)          \* 2024-02-29T23:30:00Z
T_Z2 == Stamp(2024, 3, 1, 8, 0, "Z", 0)             \* 2024-03-01T08:00:00Z
T_Z3 == Stamp(2024, 3, 3, 16, 0, "Z", 0)            \* 2024-03-03T16:00:00Z
T_OFF == Stamp(2024, 2, 29, 23, 30, "offset", -120) \* 2024-02-29T23:30:00-02:00
T_NAIVE == Stamp(2024, 3, 1, 0, 30, "naive", 0)     \* 2024-03-01T00:30:00
T_NYE == Stamp(2023, 12, 31, 22, 15, "Z", 0)        \* 2023-12-31T22:15:00Z

\* UTC offsets of the hosts the encoder runs on: a UTC host, a CET host
Hosts == {0, 60}

\* local zone identifiers handed to json_to_ics; the last one does not resolve
Zones == {"Europe/Berlin", "UTC", "Mars/Phobos"}

Names == {<<"Roster">>, <<"Crew", "\n", "Roster">>}

\* d with key k set to v
Extend(d, k, v) == [x \in DOMAIN d \cup {k} |-> IF x = k THEN v ELSE d[x]]

\* the dicts of S, and each of them with the optional key k set to a value of V
WithOpt(S, k, V) == S \cup {Extend(d, k, v) : d \in S, v \in V}

SeqsUpTo(S, n) == UNION {[1..k -> S] : k \in 0..n}

\* flight segments
S_FULL == [flight_number |-> <<"BA123">>, departure_airport |-> <<"LHR">>,
           arrival_airport |-> <<"JFK">>, departure_time_utc |-> T_Z2,
           arrival_time_utc |-> T_Z3]
S_BARE == [flight_number |-> <<>>, arrival_airport |-> <<>>,
           departure_time_utc |-> T_NAIVE, arrival_time_utc |-> T_OFF]
S_NODEP == [flight_number |-> <<"LH400">>, arrival_time_utc |-> T_Z3]
S_BADARR == [flight_number |-> <<"LH400">>, departure_time_utc |-> T_Z2,
             arrival_time_utc |-> Garbage]
Segments == {S_FULL, S_BARE, S_NODEP, S_BADARR}

\* activity segments
A_OK == [start_place |-> <<"FRA">>, start_time_utc |-> T_Z2, end_time_utc |-> T_Z3]
A_BAD == [start_place |-> <<"FRA">>, end_place |-> <<"MUC">>, start_time_utc |-> T_Z2]

\* events that vary in duty type, timestamps and the all-day flag
TimingEvents ==
    WithOpt(WithOpt(WithOpt(WithOpt({<<>>},
        "duty_type", {<<"FLIGHT">>, <<"HSBY">>, <<"A/L">>, <<"GROUND">>}),
        "start_utc", {Garbage, T_Z1, T_OFF, T_NAIVE, T_NYE}),
        "end_utc", {Garbage, T_Z2, T_Z3}),
        "is_all_day", {TRUE, FALSE})

\* events that vary in their segments
Extras ==
    { [start_utc |-> T_Z1, end_utc |-> T_Z3],
      [start_utc |-> T_Z1, end_utc |-> T_Z3, activities |-> <<A_OK>>,
       location |-> <<"FRA">>],
      [start_utc |-> T_Z1, end_utc |-> T_Z3, activities |-> <<A_BAD>>] }

SegmentEvents ==
    LET base == {Extend(x, "duty_type", t) :
                    x \in Extras, t \in {<<"FLIGHT">>, <<"DH">>, <<"GROUND">>}}
    IN  base \cup {Extend(b, "flights", f) : b \in base, f \in SeqsUpTo(Segments, MaxSegs)}

Events == TimingEvents \cup SegmentEvents

\* the events of the rosters that hold several events
E_FLIGHT == [duty_type |-> <<"FLIGHT">>, start_utc |-> T_Z1, end_utc |-> T_Z3,
             flights |-> <<S_FULL>>]
E_TWIN == [duty_type |-> <<"FLIGHT">>, start_utc |-> T_Z1, end_utc |-> T_Z3,
           is_all_day |-> TRUE, location |-> <<"FRA">>, activities |-> <<A_OK>>]
E_STANDBY == [duty_type |-> <<"HSBY">>, start_utc |-> T_NAIVE, end_utc |-> T_Z3,
              location |-> <<"Gate", ",", "B", "\r", "2">>, flights |-> <<S_NODEP>>]
E_GROUND == [duty_type |-> <<"SIM", "\n", "OPC">>, start_utc |-> T_OFF,
             end_utc |-> T_Z2]
E_BADSEG == [duty_type |-> <<"DH">>, start_utc |-> T_Z1, end_utc |-> T_Z3,
             flights |-> <<S_FULL, S_BADARR>>]
RosterEvents == {E_FLIGHT, E_TWIN, E_STANDBY, E_GROUND, E_BADSEG}

NoCall == [pc |-> "none"]

\* roster.get("events", [])
events == Get(roster, "events", <<>>)

-----------------------------------------------------------------------------
(* The state machine *)

InitCall ==
    /\ calendar_name \in Names
    /\ local_tz \in Zones
    /\ host_tz \in Hosts
    /\ clock = Clock0
    /\ pc = "body"
    /\ body = <<>>
    /\ result = <<>>
    /\ error = ""
    /\ first = NoCall
    /\ text = <<>>
    /\ escaped = <<>>

\* json_to_ics is called on a roster of up to MaxEvents events, or on one
\* without the "events" key
Init ==
    /\ roster \in {[events |-> es] : es \in SeqsUpTo(RosterEvents, MaxEvents)}
                      \cup {[name |-> <<"crew">>]}
    /\ InitCall

\* json_to_ics is called on a roster of one event
InitEvent ==
    /\ roster \in {[events |-> <<e>>] : e \in Events}
    /\ InitCall
    /\ calendar_name = <<"Roster">>

\* one iteration of the list comprehension of json_to_ics (line 151): the
\* next event is encoded, the wall clock being read at `now`
EncodeEvent ==
    /\ pc = "body"
    /\ Len(body) < Len(events)
    /\ \E now \in clock..(Clock0 + MaxTicks) :
          LET block == event_to_ics(events[Len(body) + 1], local_tz, host_tz, now)
          IN  /\ clock' = now
              /\ IF block.ok
                 THEN /\ body' = Append(body, block.val)
                      /\ UNCHANGED <<pc, error>>
                 ELSE /\ body' = <<>>
                      /\ pc' = "raised"
                      /\ error' = block.err
    /\ UNCHANGED <<roster, calendar_name, local_tz, host_tz, result, first,
                   text, escaped>>

\* json_to_ics, lines 152-153: the document is joined and returned
Assemble ==
    /\ pc = "body"
    /\ Len(body) = Len(events)
    /\ result' = assemble(calendar_name, body)
    /\ pc' = "done"
    /\ UNCHANGED <<roster, calendar_name, local_tz, host_tz, clock, body, error,
                   first, text, escaped>>

\* the caller converts the same roster once more, later, possibly on another
\* host and with another local zone
CallAgain ==
    /\ pc \in {"done", "raised"}
    /\ first = NoCall
    /\ first' = [pc |-> pc, body |-> body, result |-> result, error |-> error,
                 local_tz |-> local_tz, host_tz |-> host_tz]
    /\ local_tz' \in Zones
    /\ host_tz' \in Hosts
    /\ pc' = "body"
    /\ body' = <<>>
    /\ result' = <<>>
    /\ error' = ""
    /\ UNCHANGED <<roster, calendar_name, clock, text, escaped>>

Next == EncodeEvent \/ Assemble \/ CallAgain

Spec == Init /\ [][Next]_vars

SpecEvent == InitEvent /\ [][Next]_vars

\* the escaping harness: _escape_ics_text applied to any text of up to MaxLen
\* characters
Alphabet == {"\\", ",", ";", "\n", "n", "a"}

InitEscape ==
    /\ text \in SeqsUpTo(Alphabet, MaxLen)
    /\ escaped = NoText
    /\ roster = [events |-> <<>>]
    /\ calendar_name = <<"Roster">>
    /\ local_tz = "Europe/Berlin"
    /\ host_tz = 0
    /\ clock = Clock0
    /\ pc = "idle"
    /\ body = <<>>
    /\ result = <<>>
    /\ error = ""
    /\ first = NoCall

EscapeText ==
    /\ pc = "idle"
    /\ escaped = NoText
    /\ escaped' = escape_ics_text(text)
    /\ UNCHANGED <<roster, calendar_name, local_tz, host_tz, clock, pc, body,
                   result, error, first, text>>

NextEscape == EscapeText

SpecEscape == InitEscape /\ [][NextEscape]_vars

-----------------------------------------------------------------------------
(* Reading a document back *)

\* t split at every occurrence of sep, left to right: SplitFrom scans t from
\* position i on, `start` being where the current piece begins
RECURSIVE SplitFrom(_, _, _, _)
SplitFrom(t, sep, i, start) ==
    IF i + Len(sep) - 1 > Len(t) THEN <<SubSeq(t, start, Len(t))>>
    ELSE IF SubSeq(t, i, i + Len(sep) - 1) = sep
         THEN <<SubSeq(t, start, i - 1)>> \o SplitFrom(t, sep, i + Len(sep), i + Len(sep))
         ELSE SplitFrom(t, sep, i + 1, start)

SplitOn(t, sep) == SplitFrom(t, sep, 1, 1)

\* the lines of a block or document
LinesOf(t) == SplitOn(t, CRLF)

\* the lines of t that start with the token `key`
LinesWith(t, key) ==
    SelectSeq(LinesOf(t), LAMBDA line : line # <<>> /\ line[1] = key)

Count(t, token) == Cardinality({i \in 1..Len(t) : t[i] = token})

RECURSIVE Flatten(_)
Flatten(parts) == IF parts = <<>> THEN <<>> ELSE parts[1] \o Flatten(Tail(parts))

\* a call returned a document
Done == pc = "done"

\* the blocks encoded so far, by this call and then by the previous one
Blocks == body \o (IF first = NoCall THEN <<>> ELSE first.body)

\* the event that Blocks[i] encodes
EventOf(i) == events[IF i <= Len(body) THEN i ELSE i - Len(body)]

Encoded == 1..Len(Blocks)

Absent == <<"<absent>">>

-----------------------------------------------------------------------------
(* C1 *)

ExpectedPreamble ==
    <<"BEGIN:VCALENDAR", "\r", "\n", "VERSION:2.0", "\r", "\n", "PRODID:-//">>
        \o calendar_name
        \o <<"//RosterToICS//EN", "\r", "\n", "CALSCALE:GREGORIAN", "\r", "\n",
             "METHOD:PUBLISH", "\r", "\n">>

\* the UID line of event e; an event without duty_type is filed as DUTY
ExpectedUid(e) ==
    <<"UID:">> \o Get(e, "duty_type", <<"DUTY">>) \o <<"|">> \o IsoText(e.start_utc)
        \o <<"|">> \o IsoText(e.end_utc)

\* block is one VEVENT block, and it is the one of event e
IsBlockLines(ls, e) ==
    /\ ls[1] = <<"BEGIN:VEVENT">>
    /\ ls[2] = ExpectedUid(e)
    /\ ls[Len(ls)] = <<"END:VEVENT">>

IsBlockOf(block, e) ==
    /\ Count(block, "BEGIN:VEVENT") = 1
    /\ Count(block, "END:VEVENT") = 1
    /\ IsBlockLines(LinesOf(block), e)

\* C1: a returned document is the five-line preamble, then one VEVENT block
\* per input event in input order, then END:VCALENDAR; with no events it is
\* the preamble and END:VCALENDAR alone.
C1_DocumentInInputOrder ==
    Done =>
        /\ Len(body) = Len(events)
        /\ \A k \in 1..Len(events) : IsBlockOf(body[k], events[k])
        /\ result = ExpectedPreamble
                        \o Flatten([k \in 1..Len(body) |-> body[k] \o CRLF])
                        \o <<"END:VCALENDAR">>
        /\ Count(result, "BEGIN:VEVENT") = Len(events)
        /\ (events = <<>> => result = ExpectedPreamble \o <<"END:VCALENDAR">>)

C1_Witness ==
    /\ Done
    /\ Len(events) >= 2
    /\ events[1] = E_TWIN
    /\ events[2] = E_FLIGHT

-----------------------------------------------------------------------------
(* C2 *)

UidKey(e) == <<Get(e, "duty_type", Absent), e.start_utc, e.end_utc>>

\* where the line that holds position i ends: the position of its CR+LF
RECURSIVE EndOfLine(_, _)
EndOfLine(t, i) ==
    IF i >= Len(t) THEN Len(t) + 1
    ELSE IF t[i] = "\r" /\ t[i + 1] = "\n" THEN i
    ELSE EndOfLine(t, i + 1)

\* the UID line of a block: its second line, after BEGIN:VEVENT CR LF
UidLine(block) == SubSeq(block, 4, EndOfLine(block, 4) - 1)

\* the events encoded so far, each with the UID line of its block
EncodedUids ==
    {<<UidKey(EventOf(i)), "duty_type" \in DOMAIN EventOf(i), UidLine(Blocks[i])>> :
        i \in Encoded}

\* C2: any two encoded events that agree on duty_type, start_utc and end_utc
\* carry the same UID line, duty_type|start_utc|end_utc, whatever else differs
\* between the events or between the calls.
C2_UidDeterministic ==
    \A p, q \in EncodedUids :
        p[1] = q[1] =>
            /\ p[3] = q[3]
            /\ p[2] => p[3] = <<"UID:">> \o p[1][1] \o <<"|">> \o IsoText(p[1][2])
                                  \o <<"|">> \o IsoText(p[1][3])

C2_Witness ==
    /\ first # NoCall
    /\ first.pc = "done"
    /\ first.local_tz # local_tz
    /\ first.host_tz # host_tz
    /\ \E j, k \in 1..Len(body) :
          /\ j <= Len(first.body)
          /\ events[j] = E_FLIGHT
          /\ events[k] = E_TWIN
          /\ LinesOf(first.body[j])[3] # LinesOf(body[k])[3]

-----------------------------------------------------------------------------
(* C3 *)

\* the instant a timestamp string names when a string without offset is UTC
UtcMinutes(ts) ==
    WallMinutes(ts) - (IF ts.form = "offset" THEN ts.off ELSE 0)

YmdOfDay(day) ==
    LET c == civil_from_days(day) IN ToString(c[1]) \o Pad2(c[2]) \o Pad2(c[3])

AllDay(e) == Get(e, "is_all_day", FALSE) \/ Get(e, "duty_type", Absent) = <<"A/L">>

\* the all-day flag decides the form of the DTSTART and DTEND lines, and an
\* all-day entry ends one day after the date it starts
AllDayShape(e, block) ==
    LET ls == LinesOf(block)
    IN  IF AllDay(e)
        THEN /\ SubSeq(ls[4], 1, 3) = <<"DTSTART", ";", "VALUE=DATE:">>
             /\ SubSeq(ls[5], 1, 3) = <<"DTEND", ";", "VALUE=DATE:">>
             /\ \E day \in -1..1 :
                   /\ ls[4][4] = YmdOfDay(UtcMinutes(e.start_utc) \div 1440 + day)
                   /\ ls[5][4] = YmdOfDay(UtcMinutes(e.start_utc) \div 1440 + day + 1)
        ELSE /\ ls[4][1] = "DTSTART:"
             /\ ls[5][1] = "DTEND:"

\* C3: an event is all-day exactly when is_all_day is true or duty_type is
\* A/L; then DTSTART;VALUE=DATE is the UTC date of start_utc and
\* DTEND;VALUE=DATE the day after, whatever end_utc; every other event gets
\* DTSTART and DTEND without VALUE=DATE.
C3_AllDayIsUtcDateOfStart ==
    \A i \in Encoded :
        /\ AllDayShape(EventOf(i), Blocks[i])
        /\ AllDay(EventOf(i)) =>
              LinesOf(Blocks[i])[4][4]
                  = YmdOfDay(UtcMinutes(EventOf(i).start_utc) \div 1440)

-----------------------------------------------------------------------------
(* C4 *)

Specials == {"\\", ",", ";", "\n"}

\* every backslash, comma, semicolon and newline of t is in escaped form:
\* t is made of ordinary characters and of pairs backslash + one of \ , ; n
RECURSIVE WellEscaped(_)
WellEscaped(t) ==
    IF t = <<>> THEN TRUE
    ELSE IF t[1] = "\\"
         THEN Len(t) >= 2 /\ t[2] \in {"\\", ",", ";", "n"}
                 /\ WellEscaped(SubSeq(t, 3, Len(t)))
         ELSE t[1] \notin Specials /\ WellEscaped(Tail(t))

\* the substitutions reversed: each escape pair read back as its character
RECURSIVE Unescape(_)
Unescape(t) ==
    IF t = <<>> THEN <<>>
    ELSE IF t[1] = "\\" /\ Len(t) >= 2
         THEN <<IF t[2] = "n" THEN "\n" ELSE t[2]>> \o Unescape(SubSeq(t, 3, Len(t)))
         ELSE <<t[1]>> \o Unescape(Tail(t))

\* C4: the escaped text holds no raw newline and no backslash, comma or
\* semicolon outside an escape pair, and reversing the substitutions gives
\* the original text back.
C4_EscapeRoundTrip ==
    escaped # NoText =>
        /\ WellEscaped(escaped)
        /\ \A i \in 1..Len(escaped) : escaped[i] # "\n"
        /\ \A i \in 1..Len(escaped) :
              escaped[i] \in {",", ";"} => i > 1 /\ escaped[i - 1] = "\\"
        /\ Unescape(escaped) = text

C4_Witness ==
    /\ escaped # NoText
    /\ text = <<"\\", "n", "\n">>

-----------------------------------------------------------------------------
(* C5 *)

ExpectedColor(t) ==
    CASE t = <<"FLIGHT">> -> <<"COLOR:", "#4285F4">>
      [] t = <<"DH">> -> <<"COLOR:", "#DB4437">>
      [] t = <<"HSBY">> -> <<"COLOR:", "#F4B400">>
      [] t = <<"A/L">> -> <<"COLOR:", "#0F9D58">>
      [] OTHER -> <<>>

\* C5: a block has a COLOR line exactly when duty_type is FLIGHT, DH, HSBY or
\* A/L, with the value of the table; any other duty_type, or none, gets no
\* COLOR line.
C5_ColorIffMapped ==
    \A i \in Encoded :
        LET t == Get(EventOf(i), "duty_type", Absent)
        IN  IF t \in {<<"FLIGHT">>, <<"DH">>, <<"HSBY">>, <<"A/L">>}
            THEN LinesWith(Blocks[i], "COLOR:") = <<ExpectedColor(t)>>
            ELSE /\ LinesWith(Blocks[i], "COLOR:") = <<>>
                 /\ Count(Blocks[i], "COLOR:") = 0

C5_Witness ==
    /\ Done
    /\ Get(events[1], "duty_type", Absent) = <<"A/L">>
    /\ Count(result, "COLOR:") = 1

-----------------------------------------------------------------------------
(* C6 *)

BadStamp(d, k) == k \notin DOMAIN d \/ d[k].form = "garbage"

BadFlights(e) ==
    \E i \in 1..Len(Get(e, "flights", <<>>)) :
        BadStamp(e.flights[i], "departure_time_utc")
            \/ BadStamp(e.flights[i], "arrival_time_utc")

BadActivities(e) ==
    \E i \in 1..Len(Get(e, "activities", <<>>)) :
        BadStamp(e.activities[i], "start_time_utc")
            \/ BadStamp(e.activities[i], "end_time_utc")

\* a required timestamp of the event or of any of its segments is bad
BadAnywhere(e) ==
    BadStamp(e, "start_utc") \/ BadStamp(e, "end_utc")
        \/ BadFlights(e) \/ BadActivities(e)

\* a required timestamp of the event, or of a segment its duty type reads, is bad
BadWhereRead(e) ==
    \/ BadStamp(e, "start_utc")
    \/ BadStamp(e, "end_utc")
    \/ Get(e, "duty_type", Absent) \in {<<"FLIGHT">>, <<"DH">>} /\ BadFlights(e)
    \/ Get(e, "duty_type", Absent) \notin {<<"FLIGHT">>, <<"DH">>, <<"HSBY">>, <<"A/L">>}
          /\ BadActivities(e)

-----------------------------------------------------------------------------
(* C7 *)

\* C7: with a local zone identifier that does not resolve, json_to_ics
\* returns no document, whatever the roster holds.
C7_UnknownZoneFails ==
    Done => local_tz \in {"Europe/Berlin", "UTC"}

-----------------------------------------------------------------------------
(* C8 *)

\* C8: in a returned document every line break is CR+LF: no LF without a CR
\* before it, no CR without an LF after it.
C8_EveryBreakIsCRLF ==
    Done =>
        \A i \in 1..Len(result) :
            /\ result[i] = "\n" => i > 1 /\ result[i - 1] = "\r"
            /\ result[i] = "\r" => i < Len(result) /\ result[i + 1] = "\n"

-----------------------------------------------------------------------------
(* C9 *)

\* the lines of a block, the DTSTAMP line left out
WithoutStamp(block) ==
    SelectSeq(LinesOf(block), LAMBDA line : line = <<>> \/ line[1] # "DTSTAMP:")

\* C9: two encodings of the same event with the same local zone, at
\* different times and on hosts with different zones of their own, agree on
\* every line but DTSTAMP.
C9_PureExceptStamp ==
    (first # NoCall /\ first.local_tz = local_tz) =>
        \A k \in 1..Len(body) :
            k <= Len(first.body) => WithoutStamp(first.body[k]) = WithoutStamp(body[k])

-----------------------------------------------------------------------------
(* C10 *)

ClockZ == {Pad2(h) \o ":" \o Pad2(m) \o "z" : h \in 0..23, m \in 0..59}

\* the lines of the description a block carries
DescriptionLines(block) ==
    SplitOn(Tail(LinesWith(block, "DESCRIPTION:")[1]), <<"\\", "n">>)

Shown(d, k, placeholder) ==
    IF k \in DOMAIN d /\ d[k] # <<>> THEN d[k] ELSE placeholder

ExpectedZ(ts) == Pad2((UtcMinutes(ts) % 1440) \div 60) \o ":" \o Pad2(UtcMinutes(ts) % 60) \o "z"

\* line is '<flight_number> <departure_airport> <HH:MM>z <arrival_airport> <HH:MM>z'
\* for the segment, with UNKNOWN and ??? for what the segment lacks
IsFlightLine(line, seg) ==
    LET a == Shown(seg, "flight_number", <<"UNKNOWN">>) \o <<" ">>
                 \o Shown(seg, "departure_airport", <<"???">>) \o <<" ">>
        b == <<" ">> \o Shown(seg, "arrival_airport", <<"???">>) \o <<" ">>
    IN  /\ Len(line) = Len(a) + Len(b) + 2
        /\ SubSeq(line, 1, Len(a)) = a
        /\ line[Len(a) + 1] \in ClockZ
        /\ SubSeq(line, Len(a) + 2, Len(a) + 1 + Len(b)) = b
        /\ line[Len(line)] \in ClockZ
        /\ seg.departure_time_utc.form # "naive"
              => line[Len(a) + 1] = ExpectedZ(seg.departure_time_utc)
        /\ seg.arrival_time_utc.form # "naive"
              => line[Len(line)] = ExpectedZ(seg.arrival_time_utc)

\* C10: the description of a FLIGHT or DH event with n flight segments has
\* n + 2 lines: CHECK-IN, one line per segment in input order, CHECK-OUT;
\* an absent or empty flight number shows as UNKNOWN, an absent or empty
\* airport as ???; activities and location add no line.
C10_FlightDescription ==
    \A p \in Encoded :
        Get(EventOf(p), "duty_type", Absent) \in {<<"FLIGHT">>, <<"DH">>} =>
            LET flights == Get(EventOf(p), "flights", <<>>)
                lines   == DescriptionLines(Blocks[p])
            IN  /\ Len(lines) = Len(flights) + 2
                /\ lines[1][1] = "CHECK-IN "
                /\ lines[Len(lines)][1] = "CHECK-OUT "
                /\ \A i \in 1..Len(flights) : IsFlightLine(lines[i + 1], flights[i])

C10_Witness ==
    /\ Done
    /\ Get(events[1], "duty_type", Absent) = <<"DH">>
    /\ "activities" \in DOMAIN events[1]
    /\ "location" \in DOMAIN events[1]
    /\ Get(events[1], "flights", <<>>) = <<S_BARE, S_FULL>>

-----------------------------------------------------------------------------
(* C11 *)

\* the event takes the generic fallback path of _build_description: its
\* duty_type is none of FLIGHT, DH, HSBY, A/L, or it has no duty_type
Generic(e) ==
    Get(e, "duty_type", Absent) \notin {<<"FLIGHT">>, <<"DH">>, <<"HSBY">>, <<"A/L">>}

\* the part of t before the first token c
RECURSIVE Before(_, _)
Before(t, c) ==
    IF t = <<>> \/ t[1] = c THEN <<>> ELSE <<t[1]>> \o Before(Tail(t), c)

\* the first component of the UID a block carries
UidHead(block) == Before(Tail(LinesOf(block)[2]), "|")

\* the SUMMARY value and the description of a block, read back
SummaryText(block) == Unescape(Tail(LinesWith(block, "SUMMARY:")[1]))

DescriptionText(block) == Unescape(Tail(LinesWith(block, "DESCRIPTION:")[1]))

\* the description starts with the line 'Duty: ' + the SUMMARY value, and the
\* UID starts with the SUMMARY value
SameDutyType(block) ==
    /\ UidHead(block) = SummaryText(block)
    /\ IsPrefix(<<"Duty: ">> \o SummaryText(block) \o <<"\n">>, DescriptionText(block))

\* C11: within one encoded entry the duty-type string is the same everywhere
\* it appears: for every event on the generic fallback path, an event with no
\* duty_type included, the text after 'Duty: ' on the first description line
\* equals the unescaped SUMMARY value and the first component of the UID.
C11_DutyTypeSameEverywhere ==
    \A p \in Encoded : Generic(EventOf(p)) => SameDutyType(Blocks[p])

====
